---- MODULE Spec2Model ----
(***************************************************************************)
(* The inventory service's reservation engine: InMemoryInventoryStore      *)
(* (store/memory.py), its Product and Reservation records (models/) and    *)
(* the ReservationExpiryWorker (tasks/expiry.py), as a state machine.      *)
(* Request threads call reserve and release; the worker thread sweeps the  *)
(* reservation table; every store operation runs inside `with self._lock`. *)
(* One action is one step of one thread, so that the steps of different    *)
(* threads interleave exactly where the lock lets them.                    *)
(***************************************************************************)
EXTENDS Integers, Sequences, FiniteSets

(* ------------------------------------------------------------------ *)
(* Bounds of the model                                                  *)
(* ------------------------------------------------------------------ *)

\* The wall clock runs over 0..MaxTime.
MaxTime == 2

\* The reservation table holds at most this many reservations (the code has
\* no limit: no reserve call is served once the table is full).
MaxReservations == 2

\* Largest quantity a caller passes.
MaxQty == 2

\* Callers of the store may pass any integer: quantities go down to -NegQty.
NegQty == 1

\* reservation_ttl_seconds: a constructor parameter of the store (default
\* 900); tests/test_store.py constructs the store with 1.
TTL == 1

(* ------------------------------------------------------------------ *)
(* Threads, products, inputs                                            *)
(* ------------------------------------------------------------------ *)

\* Request threads (the HTTP server's workers).
RequestThreads == {"t1", "t2", "t3"}

\* The request threads that issue calls in the free-running specifications.
MainThreads == {"t1", "t2"}

\* The thread created by ReservationExpiryWorker.start() when it is called
\* once.
SweeperThreads == {"sw1"}

\* The threads that calls of start() on one worker create: start() makes a
\* new Thread on every call.
WorkerThreads == {"sw1", "sw2"}

AllThreads == RequestThreads \cup WorkerThreads

\* Nobody holds the lock.
NoThread == "nobody"

\* The catalog's product ids, and a product id that is not in it.
ProductIds == {"A", "B"}

Unknown == "NONEXISTENT"

\* _seed_catalog: each product's quantity (the demo catalog holds ten
\* products with 25..1000 items; the model keeps two small ones).
SeedQuantity == [p \in ProductIds |-> IF p = "A" THEN 3 ELSE 2]

Quantities == (0 - NegQty)..MaxQty

\* order_id: an opaque string of the caller's; "" is reserve's default.
OrderIds == {"", "order-1"}

ValidQuantities == 1..MaxQty

Max(a, b) == IF a >= b THEN a ELSE b

(* ------------------------------------------------------------------ *)
(* State                                                                *)
(* ------------------------------------------------------------------ *)

VARIABLES
    products,      \* _products: product id -> [quantity, reserved]
    reservations,  \* _reservations, in insertion order
    lock,          \* _lock: the thread holding it, or NoThread
    clock,         \* datetime.now(timezone.utc)
    th,            \* each request thread: where it is in its call, its arguments
    sw,            \* each worker thread: where it is in _run / expire_reservations
    stop_event,    \* ReservationExpiryWorker._stop_event
    ret,           \* each request thread: what its last call returned
    req,           \* the batch's plan: the quantity each thread reserves (0: no call)
    batch_avail,   \* history: product A's available stock when the batch started
    returned_sum,  \* history: the sum of the values expire_reservations has returned
    quiet,         \* history: a sweep has completed and the clock has not moved
                   \* since that sweep started
    inventory_store  \* inventory.py's module-level dict: product id ->
                     \* [quantity, reserved]

vars == <<products, reservations, lock, clock, th, sw, stop_event, ret, req,
          batch_avail, returned_sum, quiet, inventory_store>>

\* Product.available
Available(product) == Max(0, product.quantity - product.reserved)

\* A status whose low-stock range includes the threshold.
StatusThresholdIncluded(product) ==
    IF Available(product) <= 0 THEN "OUT_OF_STOCK"
    ELSE IF Available(product) <= 10 THEN "LOW_STOCK"
    ELSE "IN_STOCK"

\* Product.status
Status(product) ==
    IF Available(product) <= 0 THEN "OUT_OF_STOCK"
    ELSE IF Available(product) < 10 THEN "LOW_STOCK"
    ELSE "IN_STOCK"

\* ReservationStatus
ReservationStatus == {"ACTIVE", "FULFILLED", "EXPIRED", "CANCELLED"}

\* Reservation(product_id, quantity, order_id, expires_at): status defaults to
\* ACTIVE and created_at to the clock read by its default factory.  marked and
\* released are history: how often a sweep set the status to EXPIRED, and how
\* often a sweep subtracted the quantity from reserved and counted it.
NewReservationWrongDefault(pid, q, oid, exp, now) ==
    [product_id |-> pid, quantity |-> q, order_id |-> oid, status |-> "FULFILLED",
     created_at |-> now, expires_at |-> exp, marked |-> 0, released |-> 0]

NewReservation(pid, q, oid, exp, now) ==
    [product_id |-> pid, quantity |-> q, order_id |-> oid, status |-> "ACTIVE",
     created_at |-> now, expires_at |-> exp, marked |-> 0, released |-> 0]

\* Reservation.is_expired (expires_at is never None for a stored reservation)
IsExpiredLate(res, now) == now > res.expires_at + 1

IsExpired(res, now) == now > res.expires_at

\* expire_reservations' test of one reservation
ShouldExpireAnyStatus(res, now) == IsExpired(res, now)

ShouldExpire(res, now) == res.status = "ACTIVE" /\ IsExpired(res, now)

\* reserve's stock test: `product.available < quantity`
InsufficientStockOfTotal(product, q) == product.quantity < q

InsufficientStockExactFit(product, q) == Available(product) <= q

InsufficientStock(product, q) == Available(product) < q

\* A decrement that takes the items out of the product's quantity.
DecreasedQuantity(product, q) ==
    [product EXCEPT !.quantity = Max(0, product.quantity - q)]

\* release's and expire_reservations' clamped decrement
DecreasedUnclamped(product, q) == [product EXCEPT !.reserved = product.reserved - q]

Decreased(product, q) == [product EXCEPT !.reserved = Max(0, product.reserved - q)]

\* threading.Lock: `with self._lock` entry and exit
AcquireUnguarded(t) == lock' = t

Acquire(t) == lock = NoThread /\ lock' = t

\* A `with` block that leaves the lock held.
UnlockKept == lock' = lock

\* The end of a `with self._lock` block.
Unlock == lock' = NoThread

\* What a route handler has not read or answered yet.
Nothing == 0 - 1

\* The fields of Product.to_dict that a handler has read so far.
NoView == [reserved |-> Nothing, available |-> Nothing, status |-> "none"]

\* The handler's response: its status code, and the body of a 409.
NoResponse == [code |-> 0, available |-> Nothing, requested |-> Nothing]

\* A request thread's locals.  reserved0 and len0 are history: the product's
\* reserved counter and the length of the reservation table when the call got
\* the lock.  route, view and resp are the locals of a route handler.
IdleThread ==
    [pc |-> "idle", op |-> "none", pid |-> "none", qty |-> 0, oid |-> "", exp |-> 0,
     reserved0 |-> 0, len0 |-> 0, route |-> "none", view |-> NoView,
     resp |-> NoResponse]

\* The locals of a call that has just entered `with self._lock`.
Entered(op, pid, q, oid) ==
    [pc |-> IF op = "reserve" THEN "r_check" ELSE "l_write",
     op |-> op, pid |-> pid, qty |-> q, oid |-> oid, exp |-> 0,
     reserved0 |-> IF pid \in ProductIds THEN products[pid].reserved ELSE 0,
     len0 |-> Len(reservations), route |-> "none", view |-> NoView,
     resp |-> NoResponse]

\* A worker thread's locals.  started and failed are history: the clock when
\* its sweep got the lock, and whether a sweep of its has raised.
NewSweeper ==
    [pc |-> "new", i |-> 0, n |-> 0, expired_count |-> 0, started |-> 0,
     failed |-> FALSE]

Init ==
    /\ products = [p \in ProductIds |-> [quantity |-> SeedQuantity[p], reserved |-> 0]]
    /\ reservations = <<>>
    /\ lock = NoThread
    /\ clock = 0
    /\ th = [t \in RequestThreads |-> IdleThread]
    /\ ret = [t \in RequestThreads |-> "none"]
    /\ sw = [s \in WorkerThreads |-> NewSweeper]
    /\ stop_event = FALSE
    /\ req = [t \in RequestThreads |-> 0]
    /\ batch_avail = SeedQuantity["A"]
    /\ returned_sum = 0
    /\ quiet = FALSE
    /\ inventory_store = [p \in ProductIds |->
                             [quantity |-> SeedQuantity[p], reserved |-> 0]]

(* ------------------------------------------------------------------ *)
(* Request threads: InMemoryInventoryStore.reserve and release          *)
(* ------------------------------------------------------------------ *)

\* A request thread calls store.reserve or store.release and reaches the
\* `with self._lock` line.  (The call's arguments enter the state when the
\* call gets the lock: nothing reads them before.)
Call(t) ==
    /\ th[t].pc = "idle"
    /\ th' = [th EXCEPT ![t].pc = "lock"]
    /\ ret' = [ret EXCEPT ![t] = "pending"]
    /\ UNCHANGED <<inventory_store, products, reservations, lock, clock, sw, stop_event, req,
                   batch_avail, returned_sum, quiet>>

\* `with self._lock:` of reserve(pid, q, oid) or release(pid, q): an operation
\* of ops, a product id of pids, a quantity of qs and an order id of oids
\* (release takes none).
EnterWith(t, ops, pids, qs, oids) ==
    /\ th[t].pc = "lock"
    /\ Acquire(t)
    /\ \E op \in ops, pid \in pids, q \in qs, oid \in oids :
          /\ op = "reserve" => Len(reservations) < MaxReservations
          /\ op = "release" => oid = ""
          /\ th' = [th EXCEPT ![t] = Entered(op, pid, q, oid)]
    /\ UNCHANGED <<inventory_store, products, reservations, clock, sw, stop_event, ret, req,
                   batch_avail, returned_sum, quiet>>

\* The product ids that callers pass: one of the catalog, one that is not.
CallProducts == {"A", Unknown}

\* Calls as the request layer lets them through: quantity >= 1, here all on
\* product A (calls for unknown product ids are made in SpecCalls, SpecAny
\* and SpecRoute).
Enter(t) == EnterWith(t, {"reserve", "release"}, {"A"}, ValidQuantities, {""})

\* reserve, lines 60-65: the lookup and the stock test; `return None` leaves
\* through the lock's exit.
ReserveCheck(t) ==
    /\ th[t].pc = "r_check"
    /\ IF th[t].pid \notin ProductIds
       THEN /\ th' = [th EXCEPT ![t].pc = "unlock"]
            /\ ret' = [ret EXCEPT ![t] = "None"]
       ELSE IF InsufficientStock(products[th[t].pid], th[t].qty)
       THEN /\ th' = [th EXCEPT ![t].pc = "unlock"]
            /\ ret' = [ret EXCEPT ![t] = "None"]
       ELSE /\ th' = [th EXCEPT ![t].pc = "r_incr"]
            /\ UNCHANGED ret
    /\ UNCHANGED <<inventory_store, products, reservations, lock, clock, sw, stop_event, req,
                   batch_avail, returned_sum, quiet>>

\* reserve, line 67: product.reserved += quantity
ReserveIncrement(t) ==
    /\ th[t].pc = "r_incr"
    /\ products' = [products EXCEPT ![th[t].pid].reserved = @ + th[t].qty]
    /\ th' = [th EXCEPT ![t].pc = "r_expires"]
    /\ UNCHANGED <<inventory_store, reservations, lock, clock, sw, stop_event, ret, req,
                   batch_avail, returned_sum, quiet>>

\* reserve, lines 73-75: the argument expires_at = now() + ttl is evaluated
\* before Reservation(...) is entered.
ReserveExpiresAt(t) ==
    /\ th[t].pc = "r_expires"
    /\ th' = [th EXCEPT ![t].exp = clock + TTL, ![t].pc = "r_insert"]
    /\ UNCHANGED <<inventory_store, products, reservations, lock, clock, sw, stop_event, ret, req,
                   batch_avail, returned_sum, quiet>>

\* reserve, lines 69-78: Reservation.__init__ runs created_at's default factory
\* (a second clock read), the reservation is stored and returned.
ReserveInsert(t) ==
    /\ th[t].pc = "r_insert"
    /\ reservations' = Append(reservations,
                              NewReservation(th[t].pid, th[t].qty, th[t].oid, th[t].exp,
                                             clock))
    /\ th' = [th EXCEPT ![t].pc = "unlock", ![t].op = "inserted"]
    /\ ret' = [ret EXCEPT ![t] = "Reservation"]
    /\ UNCHANGED <<inventory_store, products, lock, clock, sw, stop_event, req,
                   batch_avail, returned_sum, quiet>>

\* A release that reports success whether or not it found the product.
ReleaseWriteAlwaysTrue(t) ==
    /\ th[t].pc = "l_write"
    /\ products' = IF th[t].pid \in ProductIds
                   THEN [products EXCEPT
                            ![th[t].pid] = Decreased(products[th[t].pid], th[t].qty)]
                   ELSE products
    /\ ret' = [ret EXCEPT ![t] = "True"]
    /\ th' = [th EXCEPT ![t].pc = "unlock"]
    /\ UNCHANGED <<inventory_store, reservations, lock, clock, sw, stop_event, req,
                   batch_avail, returned_sum, quiet>>

\* A release that also marks the product's live reservations RELEASED.
ReleaseWriteMarksReleased(t) ==
    /\ th[t].pc = "l_write"
    /\ IF th[t].pid \notin ProductIds
       THEN /\ ret' = [ret EXCEPT ![t] = "False"]
            /\ UNCHANGED <<products, reservations>>
       ELSE /\ products' = [products EXCEPT
                               ![th[t].pid] = Decreased(products[th[t].pid], th[t].qty)]
            /\ reservations' =
                  [i \in DOMAIN reservations |->
                     IF /\ reservations[i].product_id = th[t].pid
                        /\ reservations[i].status = "ACTIVE"
                     THEN [reservations[i] EXCEPT !.status = "RELEASED"]
                     ELSE reservations[i]]
            /\ ret' = [ret EXCEPT ![t] = "True"]
    /\ th' = [th EXCEPT ![t].pc = "unlock"]
    /\ UNCHANGED <<inventory_store, lock, clock, sw, stop_event, req, batch_avail, returned_sum, quiet>>

\* release, lines 82-86
ReleaseWrite(t) ==
    /\ th[t].pc = "l_write"
    /\ IF th[t].pid \notin ProductIds
       THEN /\ ret' = [ret EXCEPT ![t] = "False"]
            /\ UNCHANGED products
       ELSE /\ products' = [products EXCEPT
                               ![th[t].pid] = Decreased(products[th[t].pid], th[t].qty)]
            /\ ret' = [ret EXCEPT ![t] = "True"]
    /\ th' = [th EXCEPT ![t].pc = "unlock"]
    /\ UNCHANGED <<inventory_store, reservations, lock, clock, sw, stop_event, req,
                   batch_avail, returned_sum, quiet>>

\* The end of the `with` block: the lock is released and the call returns
\* (the caller is done with the result).
Exit(t) ==
    /\ th[t].pc = "unlock"
    /\ Unlock
    /\ th' = [th EXCEPT ![t] = IdleThread]
    /\ ret' = [ret EXCEPT ![t] = "none"]
    /\ UNCHANGED <<inventory_store, products, reservations, clock, sw, stop_event, req,
                   batch_avail, returned_sum, quiet>>

\* The same, for a caller that keeps the result (the batch tallies them).
ExitKeep(t) ==
    /\ th[t].pc = "unlock"
    /\ Unlock
    /\ th' = [th EXCEPT ![t] = IdleThread]
    /\ UNCHANGED <<inventory_store, products, reservations, clock, sw, stop_event, ret, req,
                   batch_avail, returned_sum, quiet>>

(* ------------------------------------------------------------------ *)
(* The worker: ReservationExpiryWorker and expire_reservations          *)
(* ------------------------------------------------------------------ *)

\* start(): a new thread running _run
Start(s) ==
    /\ sw[s].pc = "new"
    /\ sw' = [sw EXCEPT ![s].pc = "loop"]
    /\ UNCHANGED <<inventory_store, products, reservations, lock, clock, th, stop_event, ret, req,
                   batch_avail, returned_sum, quiet>>

\* stop(): self._stop_event.set() (the join only waits)
Stop ==
    /\ ~stop_event
    /\ \E s \in WorkerThreads : sw[s].pc # "new"
    /\ stop_event' = TRUE
    /\ UNCHANGED <<inventory_store, products, reservations, lock, clock, th, sw, ret, req,
                   batch_avail, returned_sum, quiet>>

\* A loop that never tests the stop event.
SweeperLoopIgnoresStop(s) ==
    /\ sw[s].pc = "loop"
    /\ sw' = [sw EXCEPT ![s] = [NewSweeper EXCEPT !.pc = "e_lock",
                                                  !.failed = sw[s].failed]]
    /\ UNCHANGED <<inventory_store, products, reservations, lock, clock, th, stop_event, ret, req,
                   batch_avail, returned_sum, quiet>>

\* _run: `while not self._stop_event.is_set()`, then the call of
\* expire_reservations (expired_count = 0) up to its `with self._lock`.
SweeperLoop(s) ==
    /\ sw[s].pc = "loop"
    /\ sw' = [sw EXCEPT ![s] = [NewSweeper EXCEPT
                                   !.pc = IF stop_event THEN "exited" ELSE "e_lock",
                                   !.failed = sw[s].failed]]
    /\ UNCHANGED <<inventory_store, products, reservations, lock, clock, th, stop_event, ret, req,
                   batch_avail, returned_sum, quiet>>

\* expire_reservations, lines 95-96: the lock is taken and the table copied
\* (list(self._reservations.values())): the loop visits entries 1..n.
ExpireEnter(s) ==
    /\ sw[s].pc = "e_lock"
    /\ Acquire(s)
    /\ sw' = [sw EXCEPT ![s] = [pc |-> "e_check", i |-> 1, n |-> Len(reservations),
                                expired_count |-> 0, started |-> clock,
                                failed |-> sw[s].failed]]
    /\ UNCHANGED <<inventory_store, products, reservations, clock, th, stop_event, ret, req,
                   batch_avail, returned_sum, quiet>>

\* expire_reservations, lines 96-98: the next reservation of the copy is
\* tested (is_expired reads the clock) and, if stale, marked EXPIRED.
ExpireCheck(s) ==
    /\ sw[s].pc = "e_check"
    /\ IF sw[s].i > sw[s].n
       THEN /\ sw' = [sw EXCEPT ![s].pc = "e_unlock"]
            /\ UNCHANGED reservations
       ELSE IF ShouldExpire(reservations[sw[s].i], clock)
       THEN /\ reservations' = [reservations EXCEPT
                                   ![sw[s].i].status = "EXPIRED",
                                   ![sw[s].i].marked = @ + 1]
            /\ sw' = [sw EXCEPT ![s].pc = "e_dec"]
       ELSE /\ sw' = [sw EXCEPT ![s].i = @ + 1]
            /\ UNCHANGED reservations
    /\ UNCHANGED <<inventory_store, products, lock, clock, th, stop_event, ret, req,
                   batch_avail, returned_sum, quiet>>

\* expire_reservations, lines 99-102: the product's reserved is decreased
\* (clamped) and the reservation counted.
ExpireDecrement(s) ==
    /\ sw[s].pc = "e_dec"
    /\ LET res == reservations[sw[s].i]
       IN  /\ products' = IF res.product_id \in ProductIds
                          THEN [products EXCEPT
                                   ![res.product_id] = Decreased(products[res.product_id],
                                                                 res.quantity)]
                          ELSE products
           /\ reservations' = [reservations EXCEPT ![sw[s].i].released = @ + 1]
    /\ sw' = [sw EXCEPT ![s].expired_count = @ + 1, ![s].i = @ + 1, ![s].pc = "e_check"]
    /\ UNCHANGED <<inventory_store, lock, clock, th, stop_event, ret, req, batch_avail, returned_sum,
                   quiet>>

\* expire_reservations, line 107, and _run up to its wait: the lock is
\* released and the count returned.
ExpireExit(s) ==
    /\ sw[s].pc = "e_unlock"
    /\ Unlock
    /\ returned_sum' = returned_sum + sw[s].expired_count
    /\ quiet' = (sw[s].started = clock)
    /\ sw' = [sw EXCEPT ![s] = [NewSweeper EXCEPT !.pc = "wait",
                                                  !.failed = sw[s].failed]]
    /\ UNCHANGED <<inventory_store, products, reservations, clock, th, stop_event, ret, req, batch_avail>>

\* _run, lines 37-39: the call of expire_reservations raises an Exception,
\* before it has the lock or between two reservations of its loop (on
\* line 97 or line 103); leaving the `with` block releases the lock, and the
\* count of the sweep is lost.
ExpireRaise(s) ==
    /\ sw[s].pc \in {"e_lock", "e_check"}
    /\ lock' = IF lock = s THEN NoThread ELSE lock
    /\ sw' = [sw EXCEPT ![s] = [NewSweeper EXCEPT !.pc = "caught", !.failed = TRUE]]
    /\ UNCHANGED <<inventory_store, products, reservations, clock, th, stop_event, ret, req,
                   batch_avail, returned_sum, quiet>>

\* A loop without the try/except: the exception ends the thread.
SweeperCaughtExits(s) ==
    /\ sw[s].pc = "caught"
    /\ sw' = [sw EXCEPT ![s].pc = "exited"]
    /\ UNCHANGED <<inventory_store, products, reservations, lock, clock, th, stop_event, ret, req,
                   batch_avail, returned_sum, quiet>>

\* _run, lines 42-45: `except Exception` logs the error and the loop goes on
\* to its wait.
SweeperCaught(s) ==
    /\ sw[s].pc = "caught"
    /\ sw' = [sw EXCEPT ![s].pc = "wait"]
    /\ UNCHANGED <<inventory_store, products, reservations, lock, clock, th, stop_event, ret, req,
                   batch_avail, returned_sum, quiet>>

\* A worker whose loop ends after its first sweep.
SweeperWakeOnce(s) ==
    /\ sw[s].pc = "wait"
    /\ sw' = [sw EXCEPT ![s].pc = "exited"]
    /\ UNCHANGED <<inventory_store, products, reservations, lock, clock, th, stop_event, ret, req,
                   batch_avail, returned_sum, quiet>>

\* _run: self._stop_event.wait(self._interval) returns, on its timeout or on
\* the event (the timeout runs on the monotonic clock, not on the wall clock
\* the reservations are stamped with: it may end at any wall-clock time).
SweeperWake(s) ==
    /\ sw[s].pc = "wait"
    /\ sw' = [sw EXCEPT ![s].pc = "loop"]
    /\ UNCHANGED <<inventory_store, products, reservations, lock, clock, th, stop_event, ret, req,
                   batch_avail, returned_sum, quiet>>

\* Time passes.
Tick ==
    /\ clock < MaxTime
    /\ clock' = clock + 1
    /\ quiet' = FALSE
    /\ UNCHANGED <<inventory_store, products, reservations, lock, th, sw, stop_event, ret, req,
                   batch_avail, returned_sum>>

\* The steps of a call inside the store.
InsideStep(t) ==
    \/ ReserveCheck(t)
    \/ ReserveIncrement(t)
    \/ ReserveExpiresAt(t)
    \/ ReserveInsert(t)
    \/ ReleaseWrite(t)
    \/ Exit(t)

StoreStep(t) == Enter(t) \/ InsideStep(t)

SweeperStep(s) ==
    \/ SweeperLoop(s)
    \/ ExpireEnter(s)
    \/ ExpireCheck(s)
    \/ ExpireDecrement(s)
    \/ ExpireExit(s)
    \/ SweeperWake(s)

Next ==
    \/ \E t \in MainThreads : Call(t) \/ StoreStep(t)
    \/ \E s \in SweeperThreads : Start(s) \/ SweeperStep(s)
    \/ Tick

\* The store under concurrent request threads, the worker (once started it
\* runs for the life of the process) and the clock.
Spec == Init /\ [][Next]_vars

(* ------------------------------------------------------------------ *)
(* Callers that pass any integer                                        *)
(* ------------------------------------------------------------------ *)

\* The store called directly (no validator in front): any integer quantity.
\* release(p, q) with q < 0 raises reserved without limit: calls are served
\* only while reserved is within NegQty of the range 0..quantity.
EnterAny(t) ==
    /\ products["A"].reserved >= 0 - NegQty
    /\ products["A"].reserved <= products["A"].quantity + NegQty
    /\ EnterWith(t, {"reserve", "release"}, CallProducts, Quantities, {""})

NextAny ==
    \/ Call("t1") \/ EnterAny("t1") \/ InsideStep("t1")
    \/ \E s \in SweeperThreads : Start(s) \/ SweeperStep(s)
    \/ Tick

\* One caller passing any integer quantity, the worker, the clock.
SpecAny == Init /\ [][NextAny]_vars

(* ------------------------------------------------------------------ *)
(* One caller, one call after another                                   *)
(* ------------------------------------------------------------------ *)

\* The store called directly with any integer quantity and any order id
\* (bounded as in EnterAny).
EnterCall(t) ==
    /\ products["A"].reserved >= 0 - NegQty
    /\ products["A"].reserved <= products["A"].quantity + NegQty
    /\ EnterWith(t, {"reserve", "release"}, CallProducts, Quantities, OrderIds)

NextCalls == Call("t1") \/ EnterCall("t1") \/ InsideStep("t1")

\* A sequence of reserve and release calls by one caller; no sweep.
SpecCalls == Init /\ [][NextCalls]_vars

(* ------------------------------------------------------------------ *)
(* Requests through the validators                                      *)
(* ------------------------------------------------------------------ *)

\* validate_reserve_request: the most one reservation may ask for.
MaxPerReservation == 50

\* The "quantity" of a request body: an integer (negative, zero, small, the
\* maximum, above it), a JSON value that is not an integer, or no such key.
JsonQuantities ==
    {[kind |-> "int", value |-> v] :
        v \in {0 - 1, 0, 1, 2, MaxPerReservation, MaxPerReservation + 1}}
    \cup {[kind |-> "other", value |-> 0], [kind |-> "missing", value |-> 0]}

\* The request bodies: product_id absent ("") or product A.
RequestData ==
    [product_id : {"", "A"}, quantity : JsonQuantities]

\* data.get("quantity", 1)
GetQuantity(data) ==
    IF data.quantity.kind = "missing" THEN [kind |-> "int", value |-> 1]
    ELSE data.quantity

\* A validator without the test of the quantity's sign.
validate_any_integer(data) ==
    IF data.product_id = "" THEN "product_id is required"
    ELSE IF GetQuantity(data).kind # "int" THEN "quantity must be a positive integer"
    ELSE "None"

\* validate_reserve_request: the error, or "None"
validate_reserve_request(data) ==
    IF data.product_id = "" THEN "product_id is required"
    ELSE IF GetQuantity(data).kind # "int" \/ GetQuantity(data).value < 1
    THEN "quantity must be a positive integer"
    ELSE IF GetQuantity(data).value > MaxPerReservation
    THEN "quantity exceeds maximum of 50 per reservation"
    ELSE "None"

\* validate_release_request: the error, or "None"
validate_release_request(data) ==
    IF data.product_id = "" THEN "product_id is required"
    ELSE IF GetQuantity(data).kind # "int" \/ GetQuantity(data).value < 1
    THEN "quantity must be a positive integer"
    ELSE "None"

\* The validator the route's handler applies to the request body.
Validated(route, data) ==
    IF route = "reserve" THEN validate_reserve_request(data)
    ELSE validate_release_request(data)

\* reserve_stock and release_stock, lines 66-69 and 113-117: the validator
\* returns an error, the handler answers 400 and never calls the store.
RequestRejected(t) ==
    /\ th[t].pc = "idle"
    /\ {data \in RequestData :
          \E route \in {"reserve", "release"} : Validated(route, data) # "None"} # {}
    /\ th' = [th EXCEPT ![t] = [IdleThread EXCEPT !.resp.code = 400]]
    /\ UNCHANGED <<inventory_store, products, reservations, lock, clock, sw, stop_event, ret, req,
                   batch_avail, returned_sum, quiet>>

\* The store calls that the handlers of routes make: <<route, product_id,
\* quantity>> for every request body that passes the route's validator.
StoreCalls(routes) ==
    {<<c[1], c[2].product_id, GetQuantity(c[2]).value>> :
        c \in {rd \in routes \X RequestData : Validated(rd[1], rd[2]) = "None"}}

\* reserve_stock and release_stock: the request body passed the validator,
\* and the store.reserve or store.release the handler calls with the body's
\* product_id and quantity gets the lock.  (The body is local to the
\* handler: it enters the state when the call gets the lock.)
RequestEnter(t, routes) ==
    /\ th[t].pc = "lock"
    /\ Acquire(t)
    /\ \E call \in StoreCalls(routes) :
          /\ call[1] = "reserve" => Len(reservations) < MaxReservations
          /\ th' = [th EXCEPT ![t] = Entered(call[1], call[2], call[3], "")]
    /\ UNCHANGED <<inventory_store, products, reservations, clock, sw, stop_event, ret, req,
                   batch_avail, returned_sum, quiet>>

\* t1 serves requests to both routes, t2 requests to reserve.
NextRequests ==
    \/ RequestRejected("t1") \/ Call("t1")
    \/ RequestEnter("t1", {"reserve", "release"}) \/ InsideStep("t1")
    \/ RequestRejected("t2") \/ Call("t2")
    \/ RequestEnter("t2", {"reserve"}) \/ InsideStep("t2")
    \/ \E s \in SweeperThreads : Start(s) \/ SweeperStep(s)
    \/ Tick

\* Two request threads whose calls pass through the validators, the worker,
\* the clock.
SpecRequests == Init /\ [][NextRequests]_vars

(* ------------------------------------------------------------------ *)
(* inventory.py: the module-level dict and its two handlers             *)
(* ------------------------------------------------------------------ *)

\* A release_stock without the clamp.
release_stock_unclamped(store, pid, q) ==
    IF pid \notin DOMAIN store THEN [code |-> 404, store |-> store]
    ELSE [code |-> 200,
          store |-> [store EXCEPT ![pid].reserved = store[pid].reserved - q]]

\* inventory.py reserve_stock, the `with store_lock` block: the response
\* code and the dict afterwards.
reserve_stock(store, pid, q) ==
    IF pid \notin DOMAIN store THEN [code |-> 404, store |-> store]
    ELSE IF store[pid].quantity - store[pid].reserved < q
    THEN [code |-> 409, store |-> store]
    ELSE [code |-> 200,
          store |-> [store EXCEPT ![pid].reserved = store[pid].reserved + q]]

\* inventory.py release_stock, the `with store_lock` block.
release_stock(store, pid, q) ==
    IF pid \notin DOMAIN store THEN [code |-> 404, store |-> store]
    ELSE [code |-> 200,
          store |-> [store EXCEPT
                        ![pid].reserved = Max(0, store[pid].reserved - q)]]

\* A request (reserve or release, a product id, a quantity >= 1) that is to
\* be served by both implementations.
TwinRequest(t) ==
    /\ th[t].pc = "idle"
    /\ \E op \in {"reserve", "release"}, pid \in CallProducts, q \in ValidQuantities :
          /\ op = "reserve" => Len(reservations) < MaxReservations
          /\ th' = [th EXCEPT ![t] = [IdleThread EXCEPT
                                         !.pc = "module", !.op = op,
                                         !.pid = pid, !.qty = q]]
    /\ ret' = [ret EXCEPT ![t] = "pending"]
    /\ UNCHANGED <<inventory_store, products, reservations, lock, clock, sw,
                   stop_event, req, batch_avail, returned_sum, quiet>>

\* inventory.py serves the request: its handler runs against the dict and
\* answers with a status code.
ModuleServe(t) ==
    /\ th[t].pc = "module"
    /\ LET served == IF th[t].op = "reserve"
                     THEN reserve_stock(inventory_store, th[t].pid, th[t].qty)
                     ELSE release_stock(inventory_store, th[t].pid, th[t].qty)
       IN  /\ inventory_store' = served.store
           /\ th' = [th EXCEPT ![t].pc = "lock", ![t].resp.code = served.code]
    /\ UNCHANGED <<products, reservations, lock, clock, sw, stop_event, ret, req,
                   batch_avail, returned_sum, quiet>>

\* InMemoryInventoryStore serves the same request: `with self._lock` of its
\* reserve or release.
TwinEnter(t) ==
    /\ th[t].pc = "lock"
    /\ Acquire(t)
    /\ th' = [th EXCEPT ![t] = [Entered(th[t].op, th[t].pid, th[t].qty, "")
                                   EXCEPT !.resp = th[t].resp]]
    /\ UNCHANGED <<inventory_store, products, reservations, clock, sw, stop_event,
                   ret, req, batch_avail, returned_sum, quiet>>

NextTwin ==
    TwinRequest("t1") \/ ModuleServe("t1") \/ TwinEnter("t1") \/ InsideStep("t1")

\* One sequence of reserve and release requests, each served by inventory.py
\* and then by InMemoryInventoryStore; no sweep.
SpecTwin == Init /\ [][NextTwin]_vars

(* ------------------------------------------------------------------ *)
(* A product large enough to be IN_STOCK                                *)
(* ------------------------------------------------------------------ *)

\* _seed_catalog: the quantity of "9SIQT8TOJO", the product test_stock_status
\* uses.
StatusSeedQuantity == 25

\* The quantities its callers pass.
StatusQuantities == {1, 5, 20}

\* The store after construction, product A standing for that product.
InitStatus ==
    /\ products = [p \in ProductIds |->
                      [quantity |-> IF p = "A" THEN StatusSeedQuantity
                                    ELSE SeedQuantity[p],
                       reserved |-> 0]]
    /\ reservations = <<>>
    /\ lock = NoThread
    /\ clock = 0
    /\ th = [t \in RequestThreads |-> IdleThread]
    /\ ret = [t \in RequestThreads |-> "none"]
    /\ sw = [s \in WorkerThreads |-> NewSweeper]
    /\ stop_event = FALSE
    /\ req = [t \in RequestThreads |-> 0]
    /\ batch_avail = StatusSeedQuantity
    /\ returned_sum = 0
    /\ quiet = FALSE
    /\ inventory_store = [p \in ProductIds |->
                             [quantity |-> SeedQuantity[p], reserved |-> 0]]

\* `with self._lock:` of reserve("A", q) or release("A", q); the table has
\* room for one reservation more than elsewhere.
EnterStatus(t) ==
    /\ th[t].pc = "lock"
    /\ Acquire(t)
    /\ \E op \in {"reserve", "release"}, q \in StatusQuantities :
          /\ op = "reserve" => Len(reservations) < MaxReservations + 1
          /\ th' = [th EXCEPT ![t] = Entered(op, "A", q, "")]
    /\ UNCHANGED <<inventory_store, products, reservations, clock, sw, stop_event, ret, req,
                   batch_avail, returned_sum, quiet>>

NextStatus == Call("t1") \/ EnterStatus("t1") \/ InsideStep("t1")

\* One caller reserving and releasing 1, 5 or 20 items of a product of 25.
SpecStatus == InitStatus /\ [][NextStatus]_vars

(* ------------------------------------------------------------------ *)
(* The HTTP routes: reserve_stock and get_product_stock                 *)
(* ------------------------------------------------------------------ *)

\* reserve_stock, lines 65-80: the request passed validate_reserve_request
\* (quantity >= 1) and the handler calls store.reserve.
RouteReserveCall(t) ==
    /\ th[t].pc = "idle"
    /\ th' = [th EXCEPT ![t].pc = "lock", ![t].route = "reserve"]
    /\ ret' = [ret EXCEPT ![t] = "pending"]
    /\ UNCHANGED <<inventory_store, products, reservations, lock, clock, sw, stop_event, req,
                   batch_avail, returned_sum, quiet>>

\* The handler's store.reserve(product_id, quantity, order_id) gets the lock.
RouteReserveEnter(t) ==
    /\ th[t].pc = "lock"
    /\ th[t].route = "reserve"
    /\ Len(reservations) < MaxReservations
    /\ Acquire(t)
    /\ \E pid \in CallProducts, q \in ValidQuantities :
          th' = [th EXCEPT ![t] = [Entered("reserve", pid, q, "")
                                      EXCEPT !.route = "reserve"]]
    /\ UNCHANGED <<inventory_store, products, reservations, clock, sw, stop_event, ret, req,
                   batch_avail, returned_sum, quiet>>

\* store.reserve returns to the handler (lines 80-86, 100-102): whether the
\* result is None or a reservation, the handler calls store.get_product next.
RouteReserveReturn(t) ==
    /\ th[t].pc = "unlock"
    /\ th[t].route = "reserve"
    /\ Unlock
    /\ th' = [th EXCEPT ![t].pc = "g_lock"]
    /\ UNCHANGED <<inventory_store, products, reservations, clock, sw, stop_event, ret, req,
                   batch_avail, returned_sum, quiet>>

\* get_product_stock, lines 50-53: the handler calls store.get_product.
RouteGetCall(t) ==
    /\ th[t].pc = "idle"
    /\ \E pid \in CallProducts :
          th' = [th EXCEPT ![t].pc = "g_lock", ![t].route = "get", ![t].pid = pid]
    /\ ret' = [ret EXCEPT ![t] = "pending"]
    /\ UNCHANGED <<inventory_store, products, reservations, lock, clock, sw, stop_event, req,
                   batch_avail, returned_sum, quiet>>

\* get_product: `with self._lock`
GetProductEnter(t) ==
    /\ th[t].pc = "g_lock"
    /\ Acquire(t)
    /\ th' = [th EXCEPT ![t].pc = "g_unlock"]
    /\ UNCHANGED <<inventory_store, products, reservations, clock, sw, stop_event, ret, req,
                   batch_avail, returned_sum, quiet>>

\* get_product returns self._products.get(product_id), the Product object
\* itself, and leaves the lock.  The handler answers 404 for None; otherwise
\* it goes on to read the object's fields.
GetProductExit(t) ==
    /\ th[t].pc = "g_unlock"
    /\ Unlock
    /\ th' = [th EXCEPT
                 ![t].pc = IF th[t].pid \notin ProductIds THEN "respond"
                           ELSE IF th[t].route = "get" THEN "span"
                           ELSE IF ret[t] = "None" THEN "conflict"
                           ELSE "low_stock",
                 ![t].resp = IF th[t].pid \notin ProductIds
                             THEN [NoResponse EXCEPT !.code = 404]
                             ELSE NoResponse]
    /\ UNCHANGED <<inventory_store, products, reservations, clock, sw, stop_event, ret, req,
                   batch_avail, returned_sum, quiet>>

\* reserve_stock, lines 92-98: the 409 body reads product.available now.
RespondConflict(t) ==
    /\ th[t].pc = "conflict"
    /\ th' = [th EXCEPT
                 ![t].pc = "respond",
                 ![t].resp = [code |-> 409,
                              available |-> Available(products[th[t].pid]),
                              requested |-> th[t].qty]]
    /\ UNCHANGED <<inventory_store, products, reservations, lock, clock, sw, stop_event, ret, req,
                   batch_avail, returned_sum, quiet>>

\* reserve_stock, lines 103-107: product.status is read for the low-stock
\* metric and the reservation is returned with 201.
RespondCreated(t) ==
    /\ th[t].pc = "low_stock"
    /\ th' = [th EXCEPT ![t].pc = "respond",
                        ![t].resp = [NoResponse EXCEPT !.code = 201]]
    /\ UNCHANGED <<inventory_store, products, reservations, lock, clock, sw, stop_event, ret, req,
                   batch_avail, returned_sum, quiet>>

\* get_product_stock, lines 57-58: product.available is read for the span.
SpanAttributes(t) ==
    /\ th[t].pc = "span"
    /\ th' = [th EXCEPT ![t].pc = "d_reserved"]
    /\ UNCHANGED <<inventory_store, products, reservations, lock, clock, sw, stop_event, ret, req,
                   batch_avail, returned_sum, quiet>>

\* to_dict, line 41: "reserved": self.reserved
DictReserved(t) ==
    /\ th[t].pc = "d_reserved"
    /\ th' = [th EXCEPT ![t].pc = "d_available",
                        ![t].view.reserved = products[th[t].pid].reserved]
    /\ UNCHANGED <<inventory_store, products, reservations, lock, clock, sw, stop_event, ret, req,
                   batch_avail, returned_sum, quiet>>

\* to_dict, line 42: "available": self.available
DictAvailable(t) ==
    /\ th[t].pc = "d_available"
    /\ th' = [th EXCEPT ![t].pc = "d_status",
                        ![t].view.available = Available(products[th[t].pid])]
    /\ UNCHANGED <<inventory_store, products, reservations, lock, clock, sw, stop_event, ret, req,
                   batch_avail, returned_sum, quiet>>

\* to_dict, line 43, Product.status line 30: `if self.available <= 0`
DictStatusFirst(t) ==
    /\ th[t].pc = "d_status"
    /\ th' = IF Available(products[th[t].pid]) <= 0
             THEN [th EXCEPT ![t].pc = "respond",
                             ![t].view.status = "OUT_OF_STOCK",
                             ![t].resp = [NoResponse EXCEPT !.code = 200]]
             ELSE [th EXCEPT ![t].pc = "d_status2"]
    /\ UNCHANGED <<inventory_store, products, reservations, lock, clock, sw, stop_event, ret, req,
                   batch_avail, returned_sum, quiet>>

\* Product.status, lines 32-34: `elif self.available < 10`, a second read
DictStatusSecond(t) ==
    /\ th[t].pc = "d_status2"
    /\ th' = [th EXCEPT ![t].pc = "respond",
                        ![t].view.status = IF Available(products[th[t].pid]) < 10
                                           THEN "LOW_STOCK" ELSE "IN_STOCK",
                        ![t].resp = [NoResponse EXCEPT !.code = 200]]
    /\ UNCHANGED <<inventory_store, products, reservations, lock, clock, sw, stop_event, ret, req,
                   batch_avail, returned_sum, quiet>>

\* The handler returns its response.
RouteDone(t) ==
    /\ th[t].pc = "respond"
    /\ th' = [th EXCEPT ![t] = IdleThread]
    /\ ret' = [ret EXCEPT ![t] = "none"]
    /\ UNCHANGED <<inventory_store, products, reservations, lock, clock, sw, stop_event, req,
                   batch_avail, returned_sum, quiet>>

\* The steps of a route handler.
RouteStep(t) ==
    \/ RouteReserveCall(t)
    \/ RouteReserveEnter(t)
    \/ ReserveCheck(t)
    \/ ReserveIncrement(t)
    \/ ReserveExpiresAt(t)
    \/ ReserveInsert(t)
    \/ RouteReserveReturn(t)
    \/ RouteGetCall(t)
    \/ GetProductEnter(t)
    \/ GetProductExit(t)
    \/ RespondConflict(t)
    \/ RespondCreated(t)
    \/ SpanAttributes(t)
    \/ DictReserved(t)
    \/ DictAvailable(t)
    \/ DictStatusFirst(t)
    \/ DictStatusSecond(t)
    \/ RouteDone(t)

NextRoute ==
    \/ RouteStep("t1")
    \/ Call("t2") \/ StoreStep("t2")
    \/ \E s \in SweeperThreads : Start(s) \/ SweeperStep(s)
    \/ Tick

\* A thread serving the reserve_stock and get_product_stock routes, a second
\* request thread calling reserve and release, the worker and the clock.
SpecRoute == Init /\ [][NextRoute]_vars

(* ------------------------------------------------------------------ *)
(* Round trips: reserve(p, q), then release(p, q)                       *)
(* ------------------------------------------------------------------ *)

\* Between its calls the caller begins a round trip on product A: it calls
\* reserve("A", q) with some q >= 1.  req[t] holds q while the round trip
\* lasts, and batch_avail the available stock it began with.
TripBegin(t) ==
    /\ th[t].pc = "idle"
    /\ req[t] = 0
    /\ Len(reservations) < MaxReservations
    /\ \E q \in ValidQuantities : req' = [req EXCEPT ![t] = q]
    /\ batch_avail' = Available(products["A"])
    /\ th' = [th EXCEPT ![t].pc = "lock"]
    /\ ret' = [ret EXCEPT ![t] = "pending"]
    /\ UNCHANGED <<inventory_store, products, reservations, lock, clock, sw, stop_event,
                   returned_sum, quiet>>

\* The round trip's reserve gets the lock.
TripReserveEnter(t) ==
    /\ th[t].pc = "lock"
    /\ req[t] # 0
    /\ ret[t] = "pending"
    /\ Acquire(t)
    /\ th' = [th EXCEPT ![t] = Entered("reserve", "A", req[t], "")]
    /\ UNCHANGED <<inventory_store, products, reservations, clock, sw, stop_event, ret, req,
                   batch_avail, returned_sum, quiet>>

\* The round trip's reserve returns: if it succeeded the caller goes on to
\* call release("A", q), if it was refused the round trip is over.
TripReserveExit(t) ==
    /\ th[t].pc = "unlock"
    /\ req[t] # 0
    /\ th[t].op # "release"
    /\ Unlock
    /\ IF ret[t] = "Reservation"
       THEN /\ th' = [th EXCEPT ![t] = [IdleThread EXCEPT !.pc = "lock"]]
            /\ UNCHANGED <<ret, req>>
       ELSE /\ th' = [th EXCEPT ![t] = IdleThread]
            /\ ret' = [ret EXCEPT ![t] = "none"]
            /\ req' = [req EXCEPT ![t] = 0]
    /\ UNCHANGED <<inventory_store, products, reservations, clock, sw, stop_event,
                   batch_avail, returned_sum, quiet>>

\* The round trip's release gets the lock.
TripReleaseEnter(t) ==
    /\ th[t].pc = "lock"
    /\ req[t] # 0
    /\ ret[t] = "Reservation"
    /\ Acquire(t)
    /\ th' = [th EXCEPT ![t] = Entered("release", "A", req[t], "")]
    /\ UNCHANGED <<inventory_store, products, reservations, clock, sw, stop_event, ret, req,
                   batch_avail, returned_sum, quiet>>

\* The round trip's release returns.
TripReleaseExit(t) ==
    /\ th[t].pc = "unlock"
    /\ req[t] # 0
    /\ th[t].op = "release"
    /\ Unlock
    /\ th' = [th EXCEPT ![t] = IdleThread]
    /\ ret' = [ret EXCEPT ![t] = "none"]
    /\ req' = [req EXCEPT ![t] = 0]
    /\ UNCHANGED <<inventory_store, products, reservations, clock, sw, stop_event,
                   batch_avail, returned_sum, quiet>>

\* A call that is not part of a round trip.
FreeCall(t) ==
    /\ req[t] = 0
    /\ Call(t) \/ EnterCall(t) \/ Exit(t)

NextTrip ==
    \/ FreeCall("t1")
    \/ TripBegin("t1")
    \/ TripReserveEnter("t1")
    \/ TripReserveExit("t1")
    \/ TripReleaseEnter("t1")
    \/ TripReleaseExit("t1")
    \/ ReserveCheck("t1")
    \/ ReserveIncrement("t1")
    \/ ReserveExpiresAt("t1")
    \/ ReserveInsert("t1")
    \/ ReleaseWrite("t1")

\* One caller whose calls (any integer quantity) bring the store into its
\* reachable states, and who makes round trips in between.
SpecTrip == Init /\ [][NextTrip]_vars

(* ------------------------------------------------------------------ *)
(* A batch of concurrent reserve calls on product A                     *)
(* ------------------------------------------------------------------ *)

\* The state a batch starts in: r0 items of A are already held by an earlier
\* reserve("A", r0) (none when r0 = 0), and each thread of the batch is about
\* to reserve req[t] items of A (0: the thread takes no part).
InitBatch ==
    /\ \E r0 \in 0..SeedQuantity["A"] :
          /\ products = [p \in ProductIds |->
                            [quantity |-> SeedQuantity[p],
                             reserved |-> IF p = "A" THEN r0 ELSE 0]]
          /\ reservations = IF r0 = 0 THEN <<>>
                            ELSE <<NewReservation("A", r0, "", TTL, 0)>>
          /\ batch_avail = SeedQuantity["A"] - r0
    /\ req \in [RequestThreads -> 0..MaxQty]
    /\ lock = NoThread
    /\ clock = 0
    /\ th = [t \in RequestThreads |-> IdleThread]
    /\ ret = [t \in RequestThreads |-> "none"]
    /\ sw = [s \in WorkerThreads |-> NewSweeper]
    /\ stop_event = FALSE
    /\ returned_sum = 0
    /\ quiet = FALSE
    /\ inventory_store = [p \in ProductIds |->
                             [quantity |-> SeedQuantity[p], reserved |-> 0]]

\* A thread of the batch makes its one call, reserve("A", req[t]).
BatchCall(t) ==
    /\ ret[t] = "none"
    /\ req[t] # 0
    /\ Call(t)

BatchEnter(t) ==
    /\ th[t].pc = "lock"
    /\ Acquire(t)
    /\ th' = [th EXCEPT ![t] = Entered("reserve", "A", req[t], "")]
    /\ UNCHANGED <<inventory_store, products, reservations, clock, sw, stop_event, ret, req,
                   batch_avail, returned_sum, quiet>>

NextBatch ==
    \E t \in RequestThreads :
        \/ BatchCall(t)
        \/ BatchEnter(t)
        \/ ReserveCheck(t)
        \/ ReserveIncrement(t)
        \/ ReserveExpiresAt(t)
        \/ ReserveInsert(t)
        \/ ExitKeep(t)

\* N concurrent reserve calls on one product; no release, no sweep.
SpecBatch == InitBatch /\ [][NextBatch]_vars

RECURSIVE SumReq(_)
\* The sum of the quantities the threads of S ask for.
SumReq(S) == IF S = {} THEN 0
             ELSE LET t == CHOOSE x \in S : TRUE IN req[t] + SumReq(S \ {t})

BatchCallers == {t \in RequestThreads : req[t] # 0}

BatchSucceeded == {t \in BatchCallers : ret[t] = "Reservation"}

BatchFailed == {t \in BatchCallers : ret[t] = "None"}

\* Every call of the batch has returned.
BatchDone ==
    /\ BatchCallers # {}
    /\ \A t \in BatchCallers : th[t].pc = "idle" /\ ret[t] \in {"Reservation", "None"}

\* The largest number of the batch's requests that fit together in the stock
\* available when the batch started.
MaxSatisfiable ==
    LET fits == {S \in SUBSET BatchCallers : SumReq(S) <= batch_avail}
    IN  CHOOSE n \in 0..Cardinality(BatchCallers) :
            /\ \E S \in fits : Cardinality(S) = n
            /\ \A S \in fits : Cardinality(S) <= n

(* ------------------------------------------------------------------ *)
(* Properties                                                           *)
(* ------------------------------------------------------------------ *)

RECURSIVE ActiveSumUpTo(_, _)
\* The sum of the quantities of the ACTIVE reservations for product p among
\* the first k entries of the table.
ActiveSumUpTo(p, k) ==
    IF k = 0 THEN 0
    ELSE ActiveSumUpTo(p, k - 1)
         + (IF reservations[k].product_id = p /\ reservations[k].status = "ACTIVE"
            THEN reservations[k].quantity ELSE 0)

ActiveSum(p) == ActiveSumUpTo(p, Len(reservations))

\* C1: after any interleaving of reserve, release and expire_reservations,
\* whatever integer quantity each call is given, every product satisfies
\* 0 <= reserved <= quantity.
C1_ReservedWithinQuantity ==
    \A p \in ProductIds :
        0 <= products[p].reserved /\ products[p].reserved <= products[p].quantity

\* C2: in a batch of concurrent reserve calls on one product, the quantities
\* of the calls that succeeded never sum to more than the stock that was
\* available when the batch started.
C2_BatchNeverOversells == SumReq(BatchSucceeded) <= batch_avail

\* A contended batch has finished: some call was refused, and the granted
\* calls took all the stock there was.
C2_Witness ==
    /\ BatchDone
    /\ batch_avail > 0
    /\ BatchFailed # {}
    /\ Cardinality(BatchSucceeded) >= 2
    /\ SumReq(BatchSucceeded) = batch_avail

\* The threads inside a critical section of the store.
InCriticalSection ==
    {t \in RequestThreads :
        th[t].pc \in {"r_check", "r_incr", "r_expires", "r_insert", "l_write", "unlock"}}
    \cup {s \in SweeperThreads : sw[s].pc \in {"e_check", "e_dec", "e_unlock"}}

MutualExclusion ==
    /\ Cardinality(InCriticalSection) <= 1
    /\ \A x \in InCriticalSection : lock = x
    /\ lock # NoThread => lock \in InCriticalSection

\* What a reserve call decided on stays true until it writes.
CheckStillHolds ==
    \A t \in RequestThreads :
        th[t].pc = "r_incr" => ~InsufficientStock(products[th[t].pid], th[t].qty)

\* A step that writes the store is a step of the thread that holds the lock,
\* and that thread holds it before and after.
WriteByHolder ==
    (products' # products \/ reservations' # reservations) =>
        /\ lock # NoThread
        /\ lock' = lock
        /\ \A t \in RequestThreads \ {lock} : th'[t] = th[t]
        /\ \A s \in SweeperThreads \ {lock} : sw'[s] = sw[s]

\* C3: reserve, release and expire_reservations are atomic: at most one thread
\* is inside a critical section of the store, it holds the lock, every write
\* of the store is made by it, and the stock test a reserve call made still
\* holds when the call writes.
C3_Atomic == [](MutualExclusion /\ CheckStillHolds) /\ [][WriteByHolder]_vars

\* A reserve call is between its stock test and its write while another call
\* and a sweep wait for the lock.
C3_Witness ==
    /\ th["t1"].pc = "r_incr"
    /\ th["t2"].pc = "lock"
    /\ \E s \in SweeperThreads : sw[s].pc = "e_lock"

\* C4: for every product, the quantities of its ACTIVE reservations never sum
\* to more than its reserved counter.
C4_ActiveWithinReserved ==
    \A p \in ProductIds : ActiveSum(p) <= products[p].reserved

\* C5 as stated: when the batch asked for more than was available, the number
\* of calls that succeeded is the largest number of its requests that fit
\* together, whatever order they were served in.
C5_SucceededIsMaximum ==
    (BatchDone /\ SumReq(BatchCallers) > batch_avail) =>
        Cardinality(BatchSucceeded) = MaxSatisfiable

\* C5, amended: requests are granted first come, first served.  After the
\* batch the number of calls that succeeded is at most the largest number
\* that fit together, no refused request fits in the stock that is left, and
\* when all requests ask for the same quantity the number is that largest one.
C5_FirstComeFirstServed ==
    BatchDone =>
        /\ Cardinality(BatchSucceeded) <= MaxSatisfiable
        /\ \A t \in BatchFailed : req[t] > Available(products["A"])
        /\ (\A t, u \in BatchCallers : req[t] = req[u]) =>
               Cardinality(BatchSucceeded) = MaxSatisfiable

\* The order mattered: the batch asked for more than there was, and fewer
\* calls succeeded than could have been satisfied together.
C5_Witness ==
    /\ BatchDone
    /\ SumReq(BatchCallers) > batch_avail
    /\ BatchFailed # {}
    /\ Cardinality(BatchSucceeded) < MaxSatisfiable

\* The worker threads that are inside a sweep (they hold the lock).
Sweeping == {s \in SweeperThreads : sw[s].pc \in {"e_check", "e_dec", "e_unlock"}}

\* The step in which sweep s marks the reservation it is looking at EXPIRED.
MarkStep(s) == sw[s].pc = "e_check" /\ sw'[s].pc = "e_dec"

\* The step in which sweep s subtracts that reservation's quantity.
DecrementStep(s) == sw[s].pc = "e_dec" /\ sw'[s].pc = "e_check"

\* C6 as stated: a sweep that runs at a time >= created_at + TTL leaves no
\* reservation of its copy ACTIVE that was created TTL or more before, and
\* subtracts the quantity of each reservation it expires from reserved.
C6_ExpiredFromCreatedPlusTTL ==
    /\ [](\A s \in SweeperThreads :
            sw[s].pc = "e_unlock" =>
                \A i \in 1..sw[s].n :
                    reservations[i].created_at + TTL <= sw[s].started =>
                        reservations[i].status = "EXPIRED")
    /\ [][\A s \in SweeperThreads :
            DecrementStep(s) =>
                LET res == reservations[sw[s].i]
                IN  products'[res.product_id].reserved =
                        products[res.product_id].reserved - res.quantity]_vars

\* C6, amended: a sweep that starts strictly after expires_at (which is at
\* most created_at + TTL, so: strictly after created_at + TTL) leaves no such
\* reservation of its copy ACTIVE; each reservation it expires is marked and
\* counted once, and reserved becomes max(0, reserved - quantity).
C6_ExpiredAfterExpiresAt ==
    /\ [](\A i \in 1..Len(reservations) :
            reservations[i].expires_at <= reservations[i].created_at + TTL)
    /\ [](\A s \in SweeperThreads :
            sw[s].pc = "e_unlock" =>
                \A i \in 1..sw[s].n :
                    (\/ reservations[i].expires_at < sw[s].started
                     \/ reservations[i].created_at + TTL < sw[s].started) =>
                        reservations[i].status = "EXPIRED")
    /\ [][\A s \in SweeperThreads :
            /\ MarkStep(s) =>
                   /\ clock > reservations[sw[s].i].expires_at
                   /\ reservations[sw[s].i].status = "ACTIVE"
                   /\ reservations'[sw[s].i].status = "EXPIRED"
            /\ DecrementStep(s) =>
                   LET res == reservations[sw[s].i]
                   IN  products'[res.product_id].reserved =
                           Max(0, products[res.product_id].reserved - res.quantity)]_vars

\* A sweep that started after created_at + TTL of a reservation has finished
\* its loop: the reservation is EXPIRED and its quantity has been subtracted.
C6_Witness ==
    \E s \in SweeperThreads :
        /\ sw[s].pc = "e_unlock"
        /\ sw[s].expired_count >= 1
        /\ \E i \in 1..sw[s].n :
              /\ reservations[i].created_at + TTL < sw[s].started
              /\ reservations[i].status = "EXPIRED"
              /\ reservations[i].released = 1
              /\ products[reservations[i].product_id].reserved = 0

\* C7: no sweep changes a reservation's status, or subtracts its quantity,
\* at a time earlier than the created_at recorded on it plus TTL.
C7_UntouchedBeforeCreatedPlusTTL ==
    [][\A i \in 1..Len(reservations) :
          (\/ reservations'[i].status # reservations[i].status
           \/ reservations'[i].released # reservations[i].released) =>
              clock >= reservations[i].created_at + TTL]_vars

RECURSIVE ReleasedUpTo(_)
\* How many subtractions the sweeps have made for the first k reservations.
ReleasedUpTo(k) == IF k = 0 THEN 0 ELSE ReleasedUpTo(k - 1) + reservations[k].released

RECURSIVE CountedIn(_)
\* The sum of the expired_count of the sweeps of S (those in progress).
CountedIn(S) == IF S = {} THEN 0
                ELSE LET s == CHOOSE x \in S : TRUE
                     IN  sw[s].expired_count + CountedIn(S \ {s})

\* C8: over any sequence of sweeps each reservation is marked EXPIRED at most
\* once and its quantity subtracted at most once, every subtraction is
\* counted in exactly one return value, and a sweep that follows a completed
\* sweep with the clock unchanged expires nothing: it returns 0 and writes
\* neither a reservation nor a counter.
C8_SweepIdempotent ==
    /\ \A i \in 1..Len(reservations) :
          /\ reservations[i].marked <= 1
          /\ reservations[i].released <= 1
          /\ reservations[i].status = "EXPIRED" <=> reservations[i].marked = 1
    /\ returned_sum + CountedIn(Sweeping) = ReleasedUpTo(Len(reservations))
    /\ \A s \in Sweeping :
          quiet => sw[s].expired_count = 0 /\ sw[s].pc # "e_dec"

\* A second sweep has run through the table at the clock value of the sweep
\* before it, which had expired a reservation: it found nothing to do.
C8_Witness ==
    \E s \in SweeperThreads :
        /\ sw[s].pc = "e_unlock"
        /\ sw[s].n >= 1
        /\ quiet
        /\ returned_sum >= 1
        /\ \E i \in 1..sw[s].n :
              reservations[i].status = "EXPIRED" /\ reservations[i].released = 1

\* What never changes of a reservation.
Identity(res) == <<res.product_id, res.quantity, res.created_at, res.expires_at>>

\* A step that leaves the table alone, or appends one ACTIVE reservation for
\* a reserve call that passed its stock test, or is a sweep marking one
\* ACTIVE reservation EXPIRED.
LifecycleStep ==
    /\ Len(reservations') >= Len(reservations)
    /\ \A i \in 1..Len(reservations) :
          /\ Identity(reservations'[i]) = Identity(reservations[i])
          /\ reservations'[i].status # reservations[i].status =>
                /\ reservations[i].status = "ACTIVE"
                /\ reservations'[i].status = "EXPIRED"
                /\ \E s \in SweeperThreads : MarkStep(s) /\ sw[s].i = i
    /\ Len(reservations') > Len(reservations) =>
          /\ Len(reservations') = Len(reservations) + 1
          /\ \E t \in RequestThreads :
                /\ th[t].pc = "r_insert"
                /\ ret'[t] = "Reservation"
                /\ reservations'[Len(reservations')].status = "ACTIVE"
                /\ reservations'[Len(reservations')].product_id = th[t].pid
                /\ reservations'[Len(reservations')].quantity = th[t].qty

\* C10: a reservation enters the table only through a successful reserve, as
\* ACTIVE; it is never removed; the only status change is ACTIVE -> EXPIRED,
\* made by expire_reservations; EXPIRED is final, and FULFILLED and CANCELLED
\* are never reached.
C10_Lifecycle ==
    /\ [](\A i \in 1..Len(reservations) :
            reservations[i].status \in {"ACTIVE", "EXPIRED"})
    /\ [][LifecycleStep]_vars

\* The table holds an EXPIRED reservation and a later one that is ACTIVE.
C10_Witness ==
    /\ Len(reservations) >= 2
    /\ reservations[1].status = "EXPIRED"
    /\ reservations[2].status = "ACTIVE"

(* ------------------------------------------------------------------ *)
(* Properties of one call                                               *)
(* ------------------------------------------------------------------ *)

\* Thread t's reserve call has run its body and is about to leave the lock.
ReserveReturned(t) == th[t].pc = "unlock" /\ th[t].op \in {"reserve", "inserted"}

\* Thread t's release call has run its body and is about to leave the lock.
ReleaseReturned(t) == th[t].pc = "unlock" /\ th[t].op = "release"

\* The available stock of the call's product when the call got the lock.
Available0(t) == Max(0, products[th[t].pid].quantity - th[t].reserved0)

\* C11: a reserve(p, q, order_id) on an existing product with
\* 1 <= q <= available (q = available included) returns a reservation: reserved
\* has grown by exactly q, available has dropped by q, and the table has
\* exactly one more entry, which is ACTIVE and carries p, q and order_id.
C11_ReserveSucceeds ==
    \A t \in RequestThreads :
        (/\ ReserveReturned(t)
         /\ th[t].pid \in ProductIds
         /\ 1 <= th[t].qty
         /\ th[t].qty <= Available0(t)) =>
            /\ ret[t] = "Reservation"
            /\ products[th[t].pid].reserved = th[t].reserved0 + th[t].qty
            /\ Available(products[th[t].pid]) = Available0(t) - th[t].qty
            /\ Len(reservations) = th[t].len0 + 1
            /\ LET res == reservations[Len(reservations)]
               IN  /\ res.status = "ACTIVE"
                   /\ res.product_id = th[t].pid
                   /\ res.quantity = th[t].qty
                   /\ res.order_id = th[t].oid

\* A reserve that asked for all the stock that was left, with an order id of
\* its own, has returned its reservation.
C11_Witness ==
    /\ ReserveReturned("t1")
    /\ th["t1"].pid = "A"
    /\ th["t1"].oid = "order-1"
    /\ th["t1"].reserved0 = 1
    /\ th["t1"].qty = Available0("t1")
    /\ ret["t1"] = "Reservation"
    /\ Available(products["A"]) = 0

\* The step in which thread t's reserve call is refused (`return None`).
RefusedStep(t) == th[t].pc = "r_check" /\ th'[t].pc = "unlock"

\* C12: a reserve on an existing product that asks for more than is available
\* returns a failure; reserved is what it was when the call began and the
\* reservation table is unchanged.
C12_InsufficientStockRefused ==
    /\ [](\A t \in RequestThreads :
            (/\ ReserveReturned(t)
             /\ th[t].pid \in ProductIds
             /\ th[t].qty > Available0(t)) =>
                /\ ret[t] = "None"
                /\ products[th[t].pid].reserved = th[t].reserved0
                /\ Len(reservations) = th[t].len0)
    /\ [][\A t \in RequestThreads :
            RefusedStep(t) => products' = products /\ reservations' = reservations]_vars

\* A reserve that asked for more than was left, though not for more than the
\* product's total quantity, has been refused.
C12_Witness ==
    /\ ReserveReturned("t1")
    /\ th["t1"].pid = "A"
    /\ th["t1"].reserved0 = 2
    /\ th["t1"].qty = 2
    /\ th["t1"].len0 = 1
    /\ ret["t1"] = "None"

\* Thread t is inside a call for a product id that is not in the catalog.
InsideUnknown(t) ==
    /\ th[t].pc \in {"r_check", "l_write", "unlock"}
    /\ th[t].pid \notin ProductIds

\* C13: for a product id that is not in the catalog reserve returns no
\* reservation and release returns false, and no step of the call changes a
\* product's counters or the reservation table.
C13_UnknownProduct ==
    /\ [](\A t \in RequestThreads :
            (InsideUnknown(t) /\ th[t].pc = "unlock") =>
                \/ th[t].op = "reserve" /\ ret[t] = "None"
                \/ th[t].op = "release" /\ ret[t] = "False")
    /\ [][\A t \in RequestThreads :
            (InsideUnknown(t) /\ th'[t] # th[t]) =>
                products' = products /\ reservations' = reservations]_vars

\* A release for an unknown product id has returned false while the store
\* holds a reservation.
C13_Witness ==
    /\ InsideUnknown("t1")
    /\ ReleaseReturned("t1")
    /\ ret["t1"] = "False"
    /\ th["t1"].len0 >= 1
    /\ products["A"].reserved >= 1

\* C14: a reserve or release call given a quantity <= 0 fails and is a no-op:
\* it returns a failure, creates no reservation and leaves the product's
\* reserved counter as it was.
C14_NonPositiveQuantityNoOp ==
    \A t \in RequestThreads :
        (th[t].pc = "unlock" /\ th[t].qty <= 0) =>
            /\ ret[t] \in {"None", "False"}
            /\ Len(reservations) = th[t].len0
            /\ th[t].pid \in ProductIds =>
                   products[th[t].pid].reserved = th[t].reserved0

\* The release of thread t's round trip has run its body.
TripDone(t) == ReleaseReturned(t) /\ req[t] # 0

\* C15: when reserve(p, q) with q >= 1 succeeds and release(p, q) follows with
\* no other operation in between, the product's available and reserved are
\* back at the values they had before the reserve.
C15_RoundTrip ==
    \A t \in RequestThreads :
        TripDone(t) =>
            /\ Available(products["A"]) = batch_avail
            /\ products["A"].reserved = products["A"].quantity - batch_avail

\* C16: a release(p, q) with q >= 1 on an existing product returns true and
\* sets reserved to max(0, reserved - q): a release of no more than is reserved
\* lowers reserved by exactly q, a release of more leaves reserved at 0, never
\* below.
C16_ReleaseClamps ==
    \A t \in RequestThreads :
        (ReleaseReturned(t) /\ th[t].pid \in ProductIds /\ th[t].qty >= 1) =>
            /\ ret[t] = "True"
            /\ products[th[t].pid].reserved >= 0
            /\ products[th[t].pid].reserved =
                   (IF th[t].reserved0 - th[t].qty >= 0
                    THEN th[t].reserved0 - th[t].qty ELSE 0)
            /\ th[t].qty <= th[t].reserved0 =>
                   products[th[t].pid].reserved = th[t].reserved0 - th[t].qty
            /\ th[t].qty > th[t].reserved0 => products[th[t].pid].reserved = 0

\* reserve("A", 2) and then release("A", 1): 1 is left reserved.
C16_Witness ==
    /\ ReleaseReturned("t1")
    /\ th["t1"].pid = "A"
    /\ Len(reservations) = 1
    /\ reservations[1].quantity = 2
    /\ th["t1"].reserved0 = 2
    /\ th["t1"].qty = 1
    /\ products["A"].reserved = 1
    /\ ret["t1"] = "True"

\* C21: every product's status is OUT_OF_STOCK when its available stock is 0,
\* LOW_STOCK when 0 < available < 10 and IN_STOCK otherwise.  For the product
\* of quantity 25: with 20 reserved it has 5 available and is LOW_STOCK, with
\* 25 reserved it has 0 available and is OUT_OF_STOCK, and a reserve of
\* q >= 1 that finds 25 reserved fails.
C21_StatusOfAvailable ==
    /\ \A p \in ProductIds :
          LET a == Available(products[p])
          IN  /\ a >= 0
              /\ a = 0 => Status(products[p]) = "OUT_OF_STOCK"
              /\ (0 < a /\ a < 10) => Status(products[p]) = "LOW_STOCK"
              /\ a >= 10 => Status(products[p]) = "IN_STOCK"
    /\ (products["A"].quantity = 25 /\ products["A"].reserved = 20) =>
          Available(products["A"]) = 5 /\ Status(products["A"]) = "LOW_STOCK"
    /\ (products["A"].quantity = 25 /\ products["A"].reserved = 25) =>
          Available(products["A"]) = 0 /\ Status(products["A"]) = "OUT_OF_STOCK"
    /\ \A t \in RequestThreads :
          (/\ ReserveReturned(t)
           /\ th[t].pid = "A"
           /\ products["A"].quantity = 25
           /\ th[t].reserved0 = 25
           /\ th[t].qty >= 1) =>
              ret[t] = "None" /\ products["A"].reserved = 25

\* 20 were reserved, then 5, and a reserve of 1 more has been refused: the
\* product is OUT_OF_STOCK.
C21_Witness ==
    /\ Len(reservations) = 2
    /\ reservations[1].quantity = 20
    /\ reservations[2].quantity = 5
    /\ ReserveReturned("t1")
    /\ th["t1"].qty = 1
    /\ th["t1"].reserved0 = 25
    /\ ret["t1"] = "None"
    /\ Status(products["A"]) = "OUT_OF_STOCK"

\* C27: for every product, the quantities of its ACTIVE reservations never
\* sum to more than the product's quantity, in any interleaving of reserve,
\* release and expire_reservations called with quantities >= 1.
C27_ActiveWithinOwned ==
    \A p \in ProductIds : ActiveSum(p) <= products[p].quantity

\* C29: for one sequence of reserve and release requests with quantities
\* >= 1 and no expiry, inventory.py and InMemoryInventoryStore accept and
\* reject the same requests, and after every request the two hold the same
\* reserved value for every product.
C29_ImplementationsAgree ==
    /\ \A t \in RequestThreads :
          th[t].pc = "unlock" =>
             (th[t].resp.code = 200 <=> ret[t] \in {"Reservation", "True"})
    /\ (\A t \in RequestThreads : th[t].pc \in {"idle", "unlock"}) =>
          \A p \in ProductIds :
             inventory_store[p].reserved = products[p].reserved

\* Both have refused a reserve of 2 when 2 of product A's 3 items were
\* reserved: 409 from inventory.py, None from the store, reserved 2 in both.
C29_Witness ==
    /\ ReserveReturned("t1")
    /\ th["t1"].pid = "A"
    /\ th["t1"].qty = 2
    /\ th["t1"].resp.code = 409
    /\ ret["t1"] = "None"
    /\ inventory_store["A"].reserved = 2
    /\ products["A"].reserved = 2

\* Thread t is inside a store call.
InStoreCall(t) == th[t].pc \notin {"idle", "lock"}

\* C26: when reserve and release are reached only through the validators,
\* the store is called only with a quantity >= 1 (at most 50 for reserve),
\* and every product has 0 <= reserved <= quantity in every reachable state.
C26_ValidatedWithinQuantity ==
    /\ \A t \in MainThreads :
          InStoreCall(t) =>
             /\ th[t].qty >= 1
             /\ th[t].op \in {"reserve", "inserted"} => th[t].qty <= 50
    /\ \A p \in ProductIds :
          /\ 0 <= products[p].reserved
          /\ products[p].reserved <= products[p].quantity

\* One thread's reserve has just taken the last of the stock, right after
\* the other thread's request was rejected with 400.
C26_Witness ==
    /\ th["t1"].pc = "r_expires"
    /\ th["t1"].reserved0 > 0
    /\ products["A"].reserved = products["A"].quantity
    /\ th["t2"].pc = "idle"
    /\ th["t2"].resp.code = 400
    /\ \E s \in SweeperThreads : sw[s].pc = "e_lock"

\* Thread t's handler is about to return a response with this status code.
Responds(t, code) == th[t].pc = "respond" /\ th[t].resp.code = code

\* C17: when the reserve route answers 409 'Insufficient stock', the available
\* count it reports is the one on which the store refused the reservation,
\* and so is less than the requested quantity it reports.
C17_ConflictReportsDenial ==
    \A t \in RequestThreads :
        Responds(t, 409) =>
            /\ th[t].resp.available = Available0(t)
            /\ th[t].resp.available < th[t].resp.requested

\* C18: the product view a handler serializes is consistent: its available
\* is max(0, quantity - reserved) of its reserved, and its status is the one
\* that goes with its available.
C18_ConsistentView ==
    \A t \in RequestThreads :
        (Responds(t, 200) /\ th[t].route = "get") =>
            /\ th[t].view.available =
                   Available([quantity |-> products[th[t].pid].quantity,
                              reserved |-> th[t].view.reserved])
            /\ th[t].view.status =
                   Status([quantity |-> products[th[t].pid].quantity,
                           reserved |-> th[t].view.reserved])

(* ------------------------------------------------------------------ *)

\* A caller that only reserves.
EnterReserve(t) == EnterWith(t, {"reserve"}, {"A"}, ValidQuantities, {""})

\* The steps of a reserve call inside the store.
ReserveStep(t) ==
    \/ ReserveCheck(t)
    \/ ReserveIncrement(t)
    \/ ReserveExpiresAt(t)
    \/ ReserveInsert(t)
    \/ Exit(t)

NextLive ==
    \/ Call("t1") \/ EnterReserve("t1") \/ ReserveStep("t1")
    \/ \E s \in SweeperThreads : Start(s) \/ SweeperStep(s)
    \/ Stop
    \/ Tick

\* A caller that reserves, the worker and the clock under fair scheduling:
\* the clock keeps advancing (up to MaxTime), a thread that can run does run
\* (a call that holds the lock finishes, the worker's wait ends, its loop
\* goes on), and a worker that keeps asking for the lock gets it.  Nothing
\* obliges the caller to call, the worker to be started, or stop() to be
\* called.
SpecLive ==
    /\ Init
    /\ [][NextLive]_vars
    /\ WF_vars(Tick)
    /\ WF_vars(EnterReserve("t1") \/ ReserveStep("t1"))
    /\ \A s \in SweeperThreads :
          /\ WF_vars(SweeperLoop(s))
          /\ SF_vars(ExpireEnter(s))
          /\ WF_vars(ExpireCheck(s))
          /\ WF_vars(ExpireDecrement(s))
          /\ WF_vars(ExpireExit(s))
          /\ WF_vars(SweeperWake(s))

NextHolds ==
    \/ \E t \in MainThreads : Call(t) \/ EnterReserve(t) \/ ReserveStep(t)
    \/ \E s \in SweeperThreads : Start(s) \/ SweeperStep(s)
    \/ Tick

\* Two threads that reserve, the worker, the clock; release is never called.
SpecHolds == Init /\ [][NextHolds]_vars

\* The quantity that product p's reserved counter is ahead of its ACTIVE
\* reservations inside a critical section: a reserve has added its quantity
\* and not yet stored its reservation, or a sweep has marked a reservation
\* EXPIRED and not yet subtracted its quantity.
InFlight(p) ==
    IF /\ lock \in RequestThreads
       /\ th[lock].pc \in {"r_expires", "r_insert"}
       /\ th[lock].pid = p
    THEN th[lock].qty
    ELSE IF /\ lock \in WorkerThreads
            /\ sw[lock].pc = "e_dec"
            /\ reservations[sw[lock].i].product_id = p
    THEN reservations[sw[lock].i].quantity
    ELSE 0

\* C28 as stated: with release never called, every product's reserved
\* counter equals the sum of the quantities of its ACTIVE reservations in
\* every reachable state.
C28_ReservedIsActiveSum ==
    \A p \in ProductIds : products[p].reserved = ActiveSum(p)

\* C28, amended: with release never called, the two are equal in every state
\* in which no thread is inside the store's lock; inside a critical section
\* reserved exceeds the sum by exactly the quantity in flight.
C28_ReservedIsActiveSumOutsideLock ==
    \A p \in ProductIds :
        /\ lock = NoThread => products[p].reserved = ActiveSum(p)
        /\ products[p].reserved = ActiveSum(p) + InFlight(p)

\* Outside the lock, after one reservation was expired and another made:
\* reserved is the quantity of the one that is ACTIVE.
C28_Witness ==
    /\ lock = NoThread
    /\ Len(reservations) = 2
    /\ reservations[1].status = "EXPIRED"
    /\ reservations[2].status = "ACTIVE"
    /\ products["A"].reserved = reservations[2].quantity
    /\ \A t \in MainThreads : th[t].pc = "idle"

\* The store's operations that only read.
ReadOperations ==
    {"list_products", "get_product", "get_reservation", "get_stock_snapshot"}

\* `with self._lock:` of list_products, get_product, get_reservation or
\* get_stock_snapshot.
EnterRead(t) ==
    /\ th[t].pc = "lock"
    /\ Acquire(t)
    /\ \E op \in ReadOperations :
          th' = [th EXCEPT ![t] = [Entered(op, "A", 0, "") EXCEPT !.pc = "read"]]
    /\ UNCHANGED <<inventory_store, products, reservations, clock, sw, stop_event, ret, req,
                   batch_avail, returned_sum, quiet>>

\* The body of a reading operation: it builds its result from the tables and
\* changes nothing.
ReadReturn(t) ==
    /\ th[t].pc = "read"
    /\ th' = [th EXCEPT ![t].pc = "unlock"]
    /\ ret' = [ret EXCEPT ![t] = "value"]
    /\ UNCHANGED <<inventory_store, products, reservations, lock, clock, sw, stop_event, req,
                   batch_avail, returned_sum, quiet>>

\* The steps of a reading operation from the lock on.
ReadStep(t) == EnterRead(t) \/ ReadReturn(t) \/ Exit(t)

\* The steps of expire_reservations from the lock on.
ExpireStep(s) ==
    ExpireEnter(s) \/ ExpireCheck(s) \/ ExpireDecrement(s) \/ ExpireExit(s)

\* `with self._lock:` of reserve("A", 1) or release("A", 1)
EnterOne(t) == EnterWith(t, {"reserve", "release"}, {"A"}, {1}, {""})

\* t1 reserves and releases, t2 reads, the worker sweeps.
NextOps ==
    \/ Call("t1") \/ EnterOne("t1") \/ InsideStep("t1")
    \/ Call("t2") \/ ReadStep("t2")
    \/ \E s \in SweeperThreads : Start(s) \/ SweeperStep(s)
    \/ Tick

\* Every operation of the store called concurrently, under fair scheduling: a
\* thread inside the lock keeps running, and a thread that keeps asking for
\* the lock gets it.  Nothing obliges a thread to call, the worker to be
\* started or its wait to end.
SpecOps ==
    /\ Init
    /\ [][NextOps]_vars
    /\ SF_vars(EnterOne("t1"))
    /\ WF_vars(InsideStep("t1"))
    /\ SF_vars(EnterRead("t2"))
    /\ WF_vars(ReadReturn("t2") \/ Exit("t2"))
    /\ \A s \in SweeperThreads :
          /\ SF_vars(ExpireEnter(s))
          /\ WF_vars(ExpireCheck(s))
          /\ WF_vars(ExpireDecrement(s))
          /\ WF_vars(ExpireExit(s))

\* Some thread is at a `with self._lock` line or inside the block.
LockWanted ==
    \/ \E t \in MainThreads : th[t].pc = "lock" \/ lock = t
    \/ \E s \in SweeperThreads : sw[s].pc = "e_lock" \/ lock = s

\* C22: under fair scheduling every call of a store operation that has
\* started (it waits for the lock or holds it) completes with the lock
\* released: a request thread's call returns, the worker's sweep ends and the
\* worker reaches its wait; and in no reachable state are the threads that
\* want the lock all unable to step.
C22_NoOperationBlocks ==
    /\ [](LockWanted =>
             ENABLED (\/ EnterOne("t1") \/ InsideStep("t1")
                      \/ ReadStep("t2")
                      \/ \E s \in SweeperThreads : ExpireStep(s)))
    /\ \A t \in MainThreads :
          (th[t].pc = "lock" \/ lock = t) ~> (th[t].pc = "idle" /\ lock # t)
    /\ \A s \in SweeperThreads :
          (sw[s].pc = "e_lock" \/ lock = s) ~> (sw[s].pc = "wait" /\ lock # s)

\* The reader holds the lock inside get_stock_snapshot while the reserving
\* thread and the worker both wait for it.
C22_Witness ==
    /\ lock = "t2"
    /\ th["t2"].op = "get_stock_snapshot"
    /\ th["t2"].pc = "read"
    /\ th["t1"].pc = "lock"
    /\ sw["sw1"].pc = "e_lock"
    /\ Len(reservations) > 0

\* `with self._lock:` of reserve(p, 1) or release(p, 1), p being A or B.
EnterEither(t) == EnterWith(t, {"reserve", "release"}, ProductIds, {1}, {""})

NextProducts ==
    \/ Call("t1") \/ EnterEither("t1") \/ InsideStep("t1")
    \/ \E s \in SweeperThreads : Start(s) \/ SweeperStep(s)
    \/ Tick

\* One caller reserving and releasing on both products, the worker, the
\* clock.
SpecProducts == Init /\ [][NextProducts]_vars

\* Thread t takes a step of a reserve or release call on product p.
CallStepOn(t, p) ==
    /\ th'[t] # th[t]
    /\ th[t].op \in {"reserve", "inserted", "release"}
    /\ th[t].pid = p

\* C25: the set of products and every product's quantity stay as seeded
\* through every operation, and a step of reserve(p, ...) or release(p, ...)
\* leaves the reserved counter of every product other than p as it was.
C25_CatalogFixed ==
    /\ [](DOMAIN products = ProductIds)
    /\ [](\A p \in ProductIds : products[p].quantity = SeedQuantity[p])
    /\ [][\A t \in RequestThreads, p \in ProductIds :
            CallStepOn(t, p) =>
              \A o \in ProductIds \ {p} :
                 products'[o].reserved = products[o].reserved]_vars

\* reserve("B", 1) has succeeded while one item of A is reserved: B's
\* reserved went from 0 to 1 and A's is still 1.
C25_Witness ==
    /\ ReserveReturned("t1")
    /\ th["t1"].pid = "B"
    /\ ret["t1"] = "Reservation"
    /\ th["t1"].reserved0 = 0
    /\ products["B"].reserved = 1
    /\ products["A"].reserved = 1

\* Thread t takes a step of a release call: it enters the lock for release,
\* runs its body, or leaves.
ReleaseStepOf(t) ==
    /\ th'[t] # th[t]
    /\ th[t].op = "release" \/ th'[t].op = "release"

\* C24: no step of a release call, successful or not, inserts, removes or
\* changes a reservation: the reservation table is the same after every such
\* step, and when the call returns the table is as long as when the call
\* got the lock.
C24_ReleaseLeavesReservations ==
    /\ [][\A t \in RequestThreads :
            ReleaseStepOf(t) => reservations' = reservations]_vars
    /\ [](\A t \in RequestThreads :
            ReleaseReturned(t) => Len(reservations) = th[t].len0)

\* release("A", 1) has returned True and brought reserved from 1 to 0, and
\* the reservation of quantity 1 is still ACTIVE, past its expiry time and
\* so due to be expired by the next sweep.
C24_Witness ==
    /\ ReleaseReturned("t1")
    /\ ret["t1"] = "True"
    /\ th["t1"].reserved0 = 1
    /\ products["A"].reserved = 0
    /\ Len(reservations) = 1
    /\ reservations[1].quantity = 1
    /\ reservations[1].status = "ACTIVE"
    /\ ShouldExpire(reservations[1], clock)

\* `with self._lock:` of reserve(p, 1) or release(p, 1), p being product A or
\* an unknown id.
EnterUnit(t) == EnterWith(t, {"reserve", "release"}, CallProducts, {1}, {""})

NextWorker ==
    \/ Call("t1") \/ EnterUnit("t1") \/ InsideStep("t1")
    \/ \E s \in WorkerThreads : Start(s) \/ SweeperStep(s)
    \/ Stop
    \/ Tick

\* start() and stop() called on the worker in any order, start() up to
\* twice, beside a caller that reserves and releases.
SpecWorker == Init /\ [][NextWorker]_vars

\* The threads of the worker that are running its loop.
RunningLoops == {s \in WorkerThreads : sw[s].pc \notin {"new", "exited"}}

\* C23: whatever start() and stop() calls are made on a worker, at most one
\* sweeper loop of it is running at any time.
C23_AtMostOneLoop == Cardinality(RunningLoops) <= 1

\* A worker thread is running its loop and stop() has not been called.
SweeperRunning ==
    /\ ~stop_event
    /\ \E s \in SweeperThreads : sw[s].pc \notin {"new", "exited"}

\* Reservation i is in the table, ACTIVE, and the clock will pass its expiry.
Held(i) ==
    /\ i <= Len(reservations)
    /\ reservations[i].status = "ACTIVE"
    /\ reservations[i].expires_at < MaxTime

\* Reservation i has been expired by a sweep.
Swept(i) == i <= Len(reservations) /\ reservations[i].status = "EXPIRED"

\* C9: while the worker runs (started, not stopped) and the clock advances,
\* every ACTIVE reservation whose expiry the clock will pass is eventually
\* EXPIRED, unless stop() is called first.
C9_NoStuckHolds ==
    \A i \in 1..MaxReservations :
        (Held(i) /\ SweeperRunning) ~>
            (Swept(i) \/ stop_event)

\* The running worker has expired a reservation and stop() was never called.
C9_Witness ==
    /\ SweeperRunning
    /\ Len(reservations) >= 1
    /\ reservations[1].status = "EXPIRED"
    /\ reservations[1].released = 1

NextFail ==
    \/ NextLive
    \/ \E s \in SweeperThreads : ExpireRaise(s) \/ SweeperCaught(s)

\* The same, with sweeps that may raise.  Nothing obliges a sweep to raise.
SpecFail ==
    /\ Init
    /\ [][NextFail]_vars
    /\ WF_vars(Tick)
    /\ WF_vars(EnterReserve("t1") \/ ReserveStep("t1"))
    /\ \A s \in SweeperThreads :
          /\ WF_vars(SweeperLoop(s))
          /\ SF_vars(ExpireEnter(s))
          /\ WF_vars(ExpireCheck(s))
          /\ WF_vars(ExpireDecrement(s))
          /\ WF_vars(ExpireExit(s))
          /\ WF_vars(SweeperCaught(s))
          /\ WF_vars(SweeperWake(s))

\* C19: a sweep that raises does not end the worker's loop: the error is
\* caught, the loop goes to its wait, and unless stop() has been called the
\* worker calls expire_reservations again; so for every sweep that raises.
\* The loop ends only when the stop event is set.
C19_LoopSurvivesFailure ==
    /\ \A s \in SweeperThreads :
          (sw[s].pc = "caught") ~> (sw[s].pc = "e_lock" \/ stop_event)
    /\ [][\A s \in SweeperThreads :
            sw[s].pc = "caught" => sw'[s].pc \in {"caught", "wait"}]_vars
    /\ [](\A s \in SweeperThreads : sw[s].pc = "exited" => stop_event)

\* A sweep is going through the table after an earlier sweep of the same
\* worker raised; stop() was never called.
C19_Witness ==
    \E s \in SweeperThreads :
        /\ sw[s].failed
        /\ sw[s].pc = "e_check"
        /\ sw[s].n >= 1
        /\ ~stop_event

\* C20: once stop() has set the stop event, every worker thread that was
\* started exits, wherever in its loop it was; an exited worker does not hold
\* the lock, and when the workers have exited every EXPIRED reservation has
\* had its quantity subtracted.
C20_StopTerminates ==
    /\ \A s \in SweeperThreads :
          (stop_event /\ sw[s].pc # "new") ~> (sw[s].pc = "exited")
    /\ [](\A s \in SweeperThreads : sw[s].pc = "exited" => lock # s)
    /\ []((\A s \in SweeperThreads : sw[s].pc \in {"new", "exited"}) =>
             \A i \in 1..Len(reservations) :
                 reservations[i].status = "EXPIRED" => reservations[i].released = 1)

\* stop() was called and the worker has exited; a reservation it expired
\* earlier has had its quantity subtracted, and the lock is free.
C20_Witness ==
    /\ stop_event
    /\ \A s \in SweeperThreads : sw[s].pc = "exited"
    /\ lock = NoThread
    /\ \E i \in 1..Len(reservations) :
          reservations[i].status = "EXPIRED" /\ reservations[i].released = 1

====
